---- MODULE Spec2Model ----
(***************************************************************************)
(* A model of beatricetools.ExprStr: the infix-to-postfix compiler for     *)
(* std.Expr strings and its dual-mode constructor.                         *)
(*                                                                         *)
(* One behaviour is one call of ExprStr with some arguments.  The recursion *)
(* of ast.NodeVisitor.visit is kept as an explicit agenda of pending visits *)
(* (the Python call stack); every visit_<Kind> handler is one action.      *)
(* Python strings are TLA+ strings, \o is string concatenation.            *)
(***************************************************************************)
EXTENDS Integers, Sequences, FiniteSets, TLC

VARIABLES
    args,         \* the caller's positional arguments (a sequence of values)
    kwargs,       \* the caller's keyword arguments, in order: <<[key, value]>>
    pc,           \* "call": before __new__; "visit": inside __init__; "done"
    filter_mode,  \* __new__'s local of that name
    tree,         \* what ast.parse returned to __init__
    stack,        \* self.stack, the token buffer
    agenda,       \* nodes whose visit is pending, next first
    exc,          \* the exception raised inside obj.__init__, if any
    calls,        \* the invocations of core.std.Expr made so far
    outcome       \* what the call yields to its caller

vars ==
    <<args, kwargs, pc, filter_mode, tree, stack, agenda, exc, calls, outcome>>

----------------------------------------------------------------------------
(* Bounds of the model.                                                    *)

\* Most nodes in a tree of the operator grammar (every operator, shallow).
MaxOperatorNodes == 3
\* Most nodes in a tree of the mixed grammar (accepted and rejected constructs).
MaxMixedNodes == 4
\* Most nodes in a tree of the deep grammar (a few constructs, nested).
MaxDeepNodes == 7
\* Most nodes in the tree of an expression passed with input sources.
MaxApplyNodes == 3
\* Most operands of one n-ary node (BoolOp values, Compare operands, Call args).
MaxOperands == 3
\* Most positional arguments of a call of ExprStr.
MaxPositional == 2

----------------------------------------------------------------------------
(* Syntax trees, as ast.parse(string, mode='eval') builds them.            *)

Num(n) == [kind |-> "Num", n |-> n]
Name(id) == [kind |-> "Name", id |-> id]
Str(s) == [kind |-> "Str", s |-> s]
UnaryOp(op, operand) == [kind |-> "UnaryOp", op |-> op, operand |-> operand]
BinOp(left, op, right) ==
    [kind |-> "BinOp", left |-> left, op |-> op, right |-> right]
Compare(left, ops, comparators) ==
    [kind |-> "Compare", left |-> left, ops |-> ops, comparators |-> comparators]
BoolOp(op, values) == [kind |-> "BoolOp", op |-> op, values |-> values]
Call(func, arguments) == [kind |-> "Call", func |-> func, args |-> arguments]
IfExp(test, body, orelse) ==
    [kind |-> "IfExp", test |-> test, body |-> body, orelse |-> orelse]
Attribute(value, attr) == [kind |-> "Attribute", value |-> value, attr |-> attr]
Expression(body) == [kind |-> "Expression", body |-> body]

\* The child nodes ast.iter_fields yields for a node kind that has no visit_
\* method, in field order.  An expression context (Load) is a node without
\* fields: visiting it does nothing, and it is left out.
Fields(node) ==
    CASE node.kind = "Expression" -> <<node.body>>
      [] node.kind = "Attribute"  -> <<node.value>>
      [] OTHER                    -> <<>>

----------------------------------------------------------------------------
(* The class attributes.                                                   *)

variables ==
    {"a", "b", "c", "d", "e", "f", "g", "h", "i", "j", "k", "l", "m",
     "n", "o", "p", "q", "r", "s", "t", "u", "v", "w", "x", "y", "z"}

operators ==
    [Add |-> "+", Sub |-> "-", Mult |-> "*", Div |-> "/",
     Eq |-> "=", Gt |-> ">", Lt |-> "<", GtE |-> ">=", LtE |-> "<=",
     Not |-> "not", And |-> "and", Or |-> "or"]

functions ==
    [abs |-> 1, exp |-> 1, log |-> 1, sqrt |-> 1,
     max |-> 2, min |-> 2, pow |-> 2]

\* functions_re is empty: no pattern, so no name matches one.
functions_re == {}

----------------------------------------------------------------------------
(* Python values and exceptions.                                           *)

\* A str holding source text; ast.parse of it yields ast (kind "Invalid":
\* ast.parse raises).
Source(t) == [type |-> "str", ast |-> t]
\* A str holding rendered postfix text.
Text(s) == [type |-> "str", text |-> s]
Clips(id) == [type |-> "clips", id |-> id]
Format(id) == [type |-> "format", id |-> id]
VideoNode == [type |-> "VideoNode"]
ExprStrObject(tokens) == [type |-> "ExprStr", stack |-> tokens]

Exception(cls, what) == [cls |-> cls, what |-> what]
NoException == Exception("", "")

\* str(n) of a non-negative int.
Digit(d) ==
    CASE d = 0 -> "0" [] d = 1 -> "1" [] d = 2 -> "2" [] d = 3 -> "3"
      [] d = 4 -> "4" [] d = 5 -> "5" [] d = 6 -> "6" [] d = 7 -> "7"
      [] d = 8 -> "8" [] d = 9 -> "9"

RECURSIVE str(_)
str(n) == IF n < 10 THEN Digit(n) ELSE str(n \div 10) \o Digit(n % 10)

\* self.stack[::-1], and in general s[::-1].
RECURSIVE Reversed(_)
Reversed(s) == IF s = <<>> THEN <<>> ELSE Append(Reversed(Tail(s)), Head(s))

\* ' '.join(tokens)
RECURSIVE Join(_)
Join(tokens) ==
    IF tokens = <<>> THEN ""
    ELSE IF Len(tokens) = 1 THEN Head(tokens)
    ELSE Head(tokens) \o " " \o Join(Tail(tokens))

----------------------------------------------------------------------------
(* The visitor's handlers.  A handler either raises, or appends tokens to  *)
(* self.stack and then visits nodes in a fixed order.                      *)

Raise(cls, what) ==
    [raises |-> TRUE, exc |-> Exception(cls, what), push |-> <<>>, visit |-> <<>>]
Emit(tokens, nodes) ==
    [raises |-> FALSE, exc |-> NoException, push |-> tokens, visit |-> nodes]

do_visit_Num(node) == Emit(<<str(node.n)>>, <<>>)

\* For a one-character id, Python's substring test `id in variables` is
\* membership of that character.
do_visit_Name(node) ==
    IF Len(node.id) > 1 \/ node.id \notin variables
    THEN Raise("SyntaxError", "clip name is not valid")
    ELSE Emit(<<node.id>>, <<>>)

do_visit_Compare(node) ==
    IF Len(node.ops) > 1
    THEN Raise("SyntaxError", "chaining of comparison operators is not supported")
    ELSE IF node.ops[1] \notin DOMAIN operators
    THEN Raise("SyntaxError", "operator is not supported")
    ELSE Emit(<<operators[node.ops[1]]>>, <<node.comparators[1], node.left>>)

do_visit_UnaryOp(node) ==
    IF node.op \notin DOMAIN operators
    THEN Raise("SyntaxError", "operator is not supported")
    ELSE Emit(<<operators[node.op]>>, <<node.operand>>)

do_visit_BoolOp(node) ==
    IF node.op \notin DOMAIN operators
    THEN Raise("SyntaxError", "operator is not supported")
    ELSE Emit(<<operators[node.op]>>, <<node.values[1], node.values[2]>>)

\* visit_BinOp visiting the left operand before the right one.
BinOp_left_first(node) ==
    IF node.op \notin DOMAIN operators
    THEN Raise("SyntaxError", "operator is not supported")
    ELSE Emit(<<operators[node.op]>>, <<node.left, node.right>>)

do_visit_BinOp(node) ==
    IF node.op \notin DOMAIN operators
    THEN Raise("SyntaxError", "operator is not supported")
    ELSE Emit(<<operators[node.op]>>, <<node.right, node.left>>)

\* visit_Call visiting the arguments first to last.
Call_args_in_order(node) ==
    IF node.func.id \notin DOMAIN functions
    THEN Raise("SyntaxError", "function is not supported")
    ELSE IF Len(node.args) # functions[node.func.id]
    THEN Raise("SyntaxError", "function takes exactly N arguments")
    ELSE Emit(<<node.func.id>>, node.args)

do_visit_Call(node) ==
    LET is_re_function == \E pattern \in functions_re : pattern = node.func.id
    IN  IF node.func.id \notin DOMAIN functions /\ ~is_re_function
        THEN Raise("SyntaxError", "function is not supported")
        ELSE IF Len(node.args) # functions[node.func.id]
        THEN Raise("SyntaxError", "function takes exactly N arguments")
        ELSE Emit(<<node.func.id>>, Reversed(node.args))

\* visit_IfExp visiting the two branches in source order.
IfExp_body_first(node) == Emit(<<"?">>, <<node.body, node.orelse, node.test>>)

do_visit_IfExp(node) == Emit(<<"?">>, <<node.orelse, node.body, node.test>>)

\* ast.NodeVisitor.generic_visit, which visit() falls back to for a node kind
\* without a visit_ method: it visits the child nodes and emits nothing.
do_generic_visit(node) == Emit(<<>>, Fields(node))

\* ast.NodeVisitor.visit: dispatch on the node's class name.
visit(node) ==
    CASE node.kind = "Num"      -> do_visit_Num(node)
      [] node.kind = "Name"     -> do_visit_Name(node)
      [] node.kind = "Compare"  -> do_visit_Compare(node)
      [] node.kind = "UnaryOp"  -> do_visit_UnaryOp(node)
      [] node.kind = "BoolOp"   -> do_visit_BoolOp(node)
      [] node.kind = "BinOp"    -> do_visit_BinOp(node)
      [] node.kind = "Call"     -> do_visit_Call(node)
      [] node.kind = "IfExp"    -> do_visit_IfExp(node)
      [] OTHER                  -> do_generic_visit(node)

\* The whole recursive visit of the nodes of `todo`, next first, on the
\* token buffer `buf`: the buffer it leaves, or the exception that ends it.
RECURSIVE VisitAll(_, _)
VisitAll(todo, buf) ==
    IF todo = <<>> THEN [raises |-> FALSE, exc |-> NoException, stack |-> buf]
    ELSE LET r == visit(Head(todo))
         IN  IF r.raises
             THEN [raises |-> TRUE, exc |-> r.exc, stack |-> buf \o r.push]
             ELSE VisitAll(r.visit \o Tail(todo), buf \o r.push)

\* ExprStr.__str__
ExprStr_str(tokens) == Join(Reversed(tokens))

----------------------------------------------------------------------------
(* ExprStr.__new__ and ExprStr.__init__.                                   *)

HasKey(kw, key) == \E i \in 1..Len(kw) : kw[i].key = key
GetKey(kw, key) == kw[CHOOSE i \in 1..Len(kw) : kw[i].key = key].value
\* kw[key] = value on a dict that holds key: the entry keeps its place.
SetKey(kw, key, value) ==
    [i \in 1..Len(kw) |->
        IF kw[i].key = key THEN [key |-> key, value |-> value] ELSE kw[i]]

\* Lines 86-100: the mode and the expression argument, or the exception.
SelectMode(a, kw) ==
    IF Len(a) = 0 /\ Len(kw) = 0
    THEN [raises |-> TRUE, exc |-> Exception("TypeError", ""),
          filter_mode |-> FALSE, string |-> Text("")]
    ELSE IF Len(a) = 1 /\ a[1].type = "str"
    THEN [raises |-> FALSE, exc |-> NoException,
          filter_mode |-> FALSE, string |-> a[1]]
    ELSE IF Len(kw) = 1 /\ HasKey(kw, "string")
    THEN [raises |-> FALSE, exc |-> NoException,
          filter_mode |-> FALSE, string |-> GetKey(kw, "string")]
    ELSE IF Len(a) > 1
    THEN [raises |-> FALSE, exc |-> NoException,
          filter_mode |-> TRUE, string |-> a[2]]
    ELSE IF HasKey(kw, "string")
    THEN [raises |-> FALSE, exc |-> NoException,
          filter_mode |-> TRUE, string |-> GetKey(kw, "string")]
    ELSE [raises |-> TRUE, exc |-> Exception("KeyError", "string"),
          filter_mode |-> TRUE, string |-> Text("")]

\* ast.parse(string, mode='eval'): the Expression node, or the exception.
Parse(string) ==
    IF string.type # "str"
    THEN [raises |-> TRUE, exc |-> Exception("TypeError", "expected str"),
          tree |-> Expression(Str(""))]
    ELSE IF string.ast.kind = "Invalid"
    THEN [raises |-> TRUE, exc |-> Exception("SyntaxError", "invalid syntax"),
          tree |-> Expression(Str(""))]
    ELSE [raises |-> FALSE, exc |-> NoException, tree |-> Expression(string.ast)]

\* __new__ catching what __init__ raises and raising its own error instead.
Propagate_wrapped(e) ==
    [kind |-> "raise", value |-> Exception("ValueError", "bad expression")]

\* Line 103: __new__ calls obj.__init__(string) outside any try statement, so
\* an exception e raised inside it leaves __new__ as it is.
Propagate(e) == [kind |-> "raise", value |-> e]

\* The rendered string put in place of the first positional argument.
FilterCall_first_argument(a, kw, tokens) ==
    IF Len(a) > 1
    THEN [args |-> [a EXCEPT ![1] = Text(ExprStr_str(tokens))], kwargs |-> kw]
    ELSE [args |-> a, kwargs |-> SetKey(kw, "string", Text(ExprStr_str(tokens)))]

\* Lines 106-112: the arguments core.std.Expr is called with.
FilterCall(a, kw, tokens) ==
    IF Len(a) > 1
    THEN [args |-> [a EXCEPT ![2] = Text(ExprStr_str(tokens))], kwargs |-> kw]
    ELSE [args |-> a, kwargs |-> SetKey(kw, "string", Text(ExprStr_str(tokens)))]

\* What core.std.Expr may do: return a clip or raise its own error.
FilterOutcomes ==
    {[kind |-> "return", value |-> VideoNode],
     [kind |-> "raise", value |-> Exception("vapoursynth.Error", "")]}

NoOutcome == [kind |-> "none", value |-> NoException]

\* No tree: ast.parse has not returned.
NoTree == [kind |-> "None"]

----------------------------------------------------------------------------
(* The calls the model makes.                                              *)

\* The trees with exactly n nodes are built from those with fewer: T[i] is
\* the set of trees with i nodes, and Kids(T, m, s) the sequences of m trees
\* with s nodes in all.
RECURSIVE Kids(_, _, _)
Kids(T, m, s) ==
    IF m = 0 THEN (IF s = 0 THEN {<<>>} ELSE {})
    ELSE UNION {{<<t>> \o rest : t \in T[i], rest \in Kids(T, m - 1, s - i)} :
                i \in 1..(s - (m - 1))}

SeqsOf(S, m) == [1..m -> S]

NodesOfSize(G, T, n) ==
    LET k(m) == Kids(T, m, n - 1)
    IN  UNION {
          IF n = 1 THEN G.leaves ELSE {},
          {UnaryOp(op, c[1]) : op \in G.unaryops, c \in k(1)},
          {Attribute(c[1], a) : a \in G.attrs, c \in k(1)},
          {BinOp(c[1], op, c[2]) : op \in G.binops, c \in k(2)},
          {IfExp(c[1], c[2], c[3]) : x \in G.ifexps, c \in k(3)},
          UNION {{BoolOp(op, c) : op \in G.boolops, c \in k(m)} :
                 m \in 2..G.operands},
          UNION {{Compare(c[1], ops, Tail(c)) :
                     ops \in SeqsOf(G.cmpops, m - 1), c \in k(m)} :
                 m \in 2..G.operands},
          UNION {{Call(Name(f), c) : f \in G.funcs, c \in k(m)} :
                 m \in 1..G.operands}}

RECURSIVE Table(_, _)
Table(G, n) ==
    IF n = 0 THEN <<>>
    ELSE LET T == Table(G, n - 1) IN Append(T, NodesOfSize(G, T, n))

Trees(G, n) == LET T == Table(G, n) IN UNION {T[i] : i \in 1..n}

\* Every operator and every function over valid operands, shallow.
OperatorGrammar ==
    [leaves   |-> {Num(50), Name("a"), Name("b")},
     unaryops |-> {"Not", "USub"},
     attrs    |-> {},
     binops   |-> {"Add", "Sub", "Mult", "Div", "Mod"},
     ifexps   |-> {"IfExp"},
     boolops  |-> {"And", "Or"},
     cmpops   |-> {"Eq", "Gt", "Lt", "GtE", "LtE", "NotEq"},
     funcs    |-> {"abs", "exp", "log", "sqrt", "max", "min", "pow", "foo"},
     operands |-> MaxOperands]

\* Accepted and rejected constructs mixed: invalid names, a string literal,
\* attribute access, unknown functions and n-ary nodes.
MixedGrammar ==
    [leaves   |-> {Name("a"), Name("ab"), Name("A"), Str("s")},
     unaryops |-> {"Not"},
     attrs    |-> {"real"},
     binops   |-> {"Sub"},
     ifexps   |-> {},
     boolops  |-> {"And"},
     cmpops   |-> {"Lt"},
     funcs    |-> {"abs", "foo"},
     operands |-> MaxOperands]

\* A few accepted constructs, nested.
DeepGrammar ==
    [leaves   |-> {Num(1), Name("x")},
     unaryops |-> {},
     attrs    |-> {},
     binops   |-> {"Sub", "Mult"},
     ifexps   |-> {"IfExp"},
     boolops  |-> {},
     cmpops   |-> {},
     funcs    |-> {"abs"},
     operands |-> 1]

\* The expressions passed together with input sources.
ApplyGrammar ==
    [leaves   |-> {Name("x"), Name("y"), Name("xy")},
     unaryops |-> {},
     attrs    |-> {},
     binops   |-> {"Add"},
     ifexps   |-> {},
     boolops  |-> {},
     cmpops   |-> {},
     funcs    |-> {"abs"},
     operands |-> 1]

\* Source text that ast.parse rejects.
Invalid == [kind |-> "Invalid"]

\* ExprStr('...'): the expression alone.
CompileCalls ==
    {[args |-> <<Source(t)>>, kwargs |-> <<>>] :
        t \in UNION {Trees(OperatorGrammar, MaxOperatorNodes),
                     Trees(MixedGrammar, MaxMixedNodes),
                     Trees(DeepGrammar, MaxDeepNodes)}}

Entry(key, value) == [key |-> key, value |-> value]

\* Keyword arguments: each of string= and format= given or not, either order.
KeywordChoices(src) ==
    LET s == Entry("string", src)
        f == Entry("format", Format(1))
    IN  {<<>>, <<s>>, <<f>>, <<s, f>>, <<f, s>>}

\* ExprStr with any positional arguments among input sources and the
\* expression, and any keyword arguments.
ApplyCalls ==
    UNION {{[args |-> a, kwargs |-> kw] :
                a \in UNION {SeqsOf({Clips(1), src}, n) : n \in 0..MaxPositional},
                kw \in KeywordChoices(src)} :
           src \in {Source(t) :
                      t \in Trees(ApplyGrammar, MaxApplyNodes) \cup {Invalid}}}

Init ==
    /\ \E c \in CompileCalls \cup ApplyCalls :
          /\ args = c.args
          /\ kwargs = c.kwargs
    /\ pc = "call"
    /\ filter_mode = FALSE
    /\ tree = NoTree
    /\ stack = <<>>
    /\ agenda = <<>>
    /\ exc = NoException
    /\ calls = <<>>
    /\ outcome = NoOutcome

----------------------------------------------------------------------------
(* The actions.                                                            *)

\* __new__ up to the first visit: the mode, the fresh object, self.stack = []
\* and ast.parse.
ExprStr_new ==
    /\ pc = "call"
    /\ LET m == SelectMode(args, kwargs)
           p == Parse(m.string)
       IN  IF m.raises
           THEN /\ outcome' = [kind |-> "raise", value |-> m.exc]
                /\ pc' = "done"
                /\ UNCHANGED <<filter_mode, tree, agenda, exc>>
           ELSE /\ filter_mode' = m.filter_mode
                /\ IF p.raises
                   THEN /\ exc' = p.exc
                        /\ outcome' = Propagate(p.exc)
                        /\ pc' = "done"
                        /\ UNCHANGED <<tree, agenda>>
                   ELSE /\ tree' = p.tree
                        /\ agenda' = <<p.tree>>
                        /\ pc' = "visit"
                        /\ UNCHANGED <<exc, outcome>>
    /\ stack' = <<>>
    /\ UNCHANGED <<args, kwargs, calls>>

\* One call of a handler on the next pending node: its tokens are appended,
\* and its visits come before the visits already pending; an exception ends
\* __init__ and with it __new__.
Handle(r) ==
    /\ stack' = stack \o r.push
    /\ IF r.raises
       THEN /\ exc' = r.exc
            /\ outcome' = Propagate(r.exc)
            /\ agenda' = <<>>
            /\ pc' = "done"
       ELSE /\ agenda' = r.visit \o Tail(agenda)
            /\ UNCHANGED <<exc, outcome, pc>>
    /\ UNCHANGED <<args, kwargs, filter_mode, tree, calls>>

Visiting(kind) == pc = "visit" /\ agenda # <<>> /\ Head(agenda).kind = kind

visit_Num == Visiting("Num") /\ Handle(do_visit_Num(Head(agenda)))

visit_Name == Visiting("Name") /\ Handle(do_visit_Name(Head(agenda)))

visit_Compare == Visiting("Compare") /\ Handle(do_visit_Compare(Head(agenda)))

visit_UnaryOp == Visiting("UnaryOp") /\ Handle(do_visit_UnaryOp(Head(agenda)))

visit_BoolOp == Visiting("BoolOp") /\ Handle(do_visit_BoolOp(Head(agenda)))

visit_BinOp == Visiting("BinOp") /\ Handle(do_visit_BinOp(Head(agenda)))

visit_Call == Visiting("Call") /\ Handle(do_visit_Call(Head(agenda)))

visit_IfExp == Visiting("IfExp") /\ Handle(do_visit_IfExp(Head(agenda)))

HandledKinds ==
    {"Num", "Name", "Compare", "UnaryOp", "BoolOp", "BinOp", "Call", "IfExp"}

generic_visit ==
    /\ pc = "visit" /\ agenda # <<>> /\ Head(agenda).kind \notin HandledKinds
    /\ Handle(do_generic_visit(Head(agenda)))

\* Lines 105-114, once __init__ has returned: the filter is called with the
\* rendered string, or the object is returned.
ExprStr_return ==
    /\ pc = "visit" /\ agenda = <<>>
    /\ IF filter_mode
       THEN /\ calls' = Append(calls, FilterCall(args, kwargs, stack))
            /\ outcome' \in FilterOutcomes
       ELSE /\ outcome' = [kind |-> "return", value |-> ExprStrObject(stack)]
            /\ UNCHANGED calls
    /\ pc' = "done"
    /\ UNCHANGED <<args, kwargs, filter_mode, tree, stack, agenda, exc>>

Next ==
    \/ ExprStr_new
    \/ visit_Num
    \/ visit_Name
    \/ visit_Compare
    \/ visit_UnaryOp
    \/ visit_BoolOp
    \/ visit_BinOp
    \/ visit_Call
    \/ visit_IfExp
    \/ generic_visit
    \/ ExprStr_return

Spec == Init /\ [][Next]_vars

----------------------------------------------------------------------------
(* What the properties are stated with.                                    *)

\* __init__ has returned: the whole tree was visited and nothing was raised.
Compiled == pc = "done" /\ tree # NoTree /\ exc = NoException

\* str(obj) of the object __init__ filled.
Output == ExprStr_str(stack)

RECURSIVE Flatten(_)
Flatten(seqs) == IF seqs = <<>> THEN <<>> ELSE Head(seqs) \o Flatten(Tail(seqs))

ArithmeticOps == {"Add", "Sub", "Mult", "Div"}
ComparisonOps == {"Eq", "Gt", "Lt", "GtE", "LtE"}

\* The nodes a statement about operand order speaks of.
Ordered(claim, node) ==
    CASE claim = "arithmetic" ->
            \/ node.kind = "BinOp" /\ node.op \in ArithmeticOps
            \/ /\ node.kind = "Compare"
               /\ Len(node.ops) = 1
               /\ node.ops[1] \in ComparisonOps
      [] claim = "conditional" -> node.kind = "IfExp"
      [] claim = "call" -> node.kind = "Call"
      [] claim = "boolean" -> node.kind = "BoolOp" /\ Len(node.values) = 2

\* The operands of such a node in source order, and its own token.
Operands(node) ==
    CASE node.kind = "BinOp"   -> <<node.left, node.right>>
      [] node.kind = "Compare" -> <<node.left, node.comparators[1]>>
      [] node.kind = "IfExp"   -> <<node.test, node.body, node.orelse>>
      [] node.kind = "Call"    -> node.args
      [] node.kind = "BoolOp"  -> <<node.values[1], node.values[2]>>

OwnToken(node) ==
    CASE node.kind = "BinOp"   -> operators[node.op]
      [] node.kind = "Compare" -> operators[node.ops[1]]
      [] node.kind = "IfExp"   -> "?"
      [] node.kind = "Call"    -> node.func.id
      [] node.kind = "BoolOp"  -> operators[node.op]

\* The tokens of a node: at a node the statement speaks of, the tokens of its
\* operands in source order and then its own token; at any other node, what
\* its handler pushes, after the tokens of the nodes the handler visits (the
\* last visited first).
RECURSIVE Postfix(_, _)
Postfix(claim, node) ==
    IF Ordered(claim, node)
    THEN LET ops == Operands(node)
         IN  Flatten([i \in 1..Len(ops) |-> Postfix(claim, ops[i])])
                \o <<OwnToken(node)>>
    ELSE LET r == visit(node)
             v == Reversed(r.visit)
         IN  Flatten([i \in 1..Len(v) |-> Postfix(claim, v[i])])
                \o Reversed(r.push)

\* The body of the parsed expression.
Body == tree.body

----------------------------------------------------------------------------
(* Properties.                                                             *)

C3_CallOrder ==
    Compiled => Output = Join(Postfix("call", tree))

\* pow(a, b) has compiled, to "a b pow".
C3_Witness ==
    /\ Compiled
    /\ Body = Call(Name("pow"), <<Name("a"), Name("b")>>)
    /\ Output = "a b pow"

\* C7: the filter is called with the caller's arguments, as many and in the
\* same order, but for the expression (the second positional argument, or
\* the string keyword when fewer than two positional arguments are given),
\* which is the compiled string.
C7_ArgumentsPassedThrough ==
    \A n \in 1..Len(calls) :
        LET c == calls[n]
            text == Text(Join(Reversed(VisitAll(<<tree>>, <<>>).stack)))
        IN  /\ Len(c.args) = Len(args)
            /\ Len(c.kwargs) = Len(kwargs)
            /\ \A i \in 1..Len(kwargs) : c.kwargs[i].key = kwargs[i].key
            /\ IF Len(args) >= 2
               THEN /\ c.args[2] = text
                    /\ \A i \in 1..Len(args) : i # 2 => c.args[i] = args[i]
                    /\ c.kwargs = kwargs
               ELSE /\ c.args = args
                    /\ \A i \in 1..Len(kwargs) :
                          c.kwargs[i].value =
                              IF kwargs[i].key = "string" THEN text
                              ELSE kwargs[i].value

\* ExprStr(clips, 'x + y', format=...) has called the filter with "x y +".
C7_Witness ==
    /\ args = <<Clips(1), Source(BinOp(Name("x"), "Add", Name("y")))>>
    /\ kwargs = <<Entry("format", Format(1))>>
    /\ calls = <<[args |-> <<Clips(1), Text("x y +")>>, kwargs |-> kwargs]>>

\* C10: the filter is called at most once, and only once the expression has
\* compiled; when compiling raises, the filter is not called, nothing is
\* returned and the caller gets the very exception that was raised.
C10_FilterAfterCompile ==
    /\ Len(calls) <= 1
    /\ calls # <<>> => Compiled /\ agenda = <<>>
    /\ exc # NoException =>
          /\ calls = <<>>
          /\ outcome = [kind |-> "raise", value |-> exc]

\* ExprStr(clips, 'xy'): compiling raised, and the filter was not called.
C10_Witness ==
    /\ args = <<Clips(1), Source(Name("xy"))>>
    /\ filter_mode
    /\ pc = "done"
    /\ exc = Exception("SyntaxError", "clip name is not valid")
    /\ calls = <<>>
    /\ outcome.kind = "raise"

----------------------------------------------------------------------------
(* Statements the code does not meet.                                      *)

\* The sub-expressions of a node.
Children(node) ==
    CASE node.kind = "Expression" -> <<node.body>>
      [] node.kind = "Attribute"  -> <<node.value>>
      [] node.kind = "UnaryOp"    -> <<node.operand>>
      [] node.kind = "BinOp"      -> <<node.left, node.right>>
      [] node.kind = "BoolOp"     -> node.values
      [] node.kind = "Compare"    -> <<node.left>> \o node.comparators
      [] node.kind = "Call"       -> node.args
      [] node.kind = "IfExp"      -> <<node.test, node.body, node.orelse>>
      [] OTHER                    -> <<>>

\* A node and all the nodes below it.
RECURSIVE Nodes(_)
Nodes(node) ==
    LET c == Children(node)
    IN  {node} \cup UNION {Nodes(c[i]) : i \in 1..Len(c)}

Parsed == pc = "done" /\ tree # NoTree

ChainedComparison(node) == node.kind = "Compare" /\ Len(node.ops) > 1
UnknownFunction(node) ==
    node.kind = "Call" /\ node.func.id \notin DOMAIN functions
WrongArity(node) ==
    /\ node.kind = "Call"
    /\ node.func.id \in DOMAIN functions
    /\ Len(node.args) # functions[node.func.id]
InvalidName(node) ==
    node.kind = "Name" /\ ~(Len(node.id) = 1 /\ node.id \in variables)

\* C4: an expression holding, at any depth, a chained comparison, a call of
\* an unknown function, a call with the wrong number of arguments or a name
\* that is not one letter of a-z fails with a SyntaxError and yields no
\* string.
C4_RejectedAtAnyDepth ==
    Parsed =>
        ((\E node \in Nodes(tree) :
              \/ ChainedComparison(node)
              \/ UnknownFunction(node)
              \/ WrongArity(node)
              \/ InvalidName(node))
         => exc.cls = "SyntaxError" /\ outcome = [kind |-> "raise", value |-> exc])

\* C5: an expression holding a boolean operator with other than two operands
\* fails with an error.
C5_BoolOpArity ==
    Parsed =>
        ((\E node \in Nodes(tree) :
              node.kind = "BoolOp" /\ Len(node.values) # 2)
         => exc # NoException /\ outcome.kind = "raise")

\* C6: an expression holding a node of a kind outside the grammar (a string
\* literal, attribute access) fails with an error, and yields no string.
C6_UnsupportedKinds ==
    Parsed =>
        ((\E node \in Nodes(tree) : node.kind \in {"Str", "Attribute"})
         => exc # NoException /\ outcome.kind = "raise")

\* C8: a call whose only argument is the expression selects compile-only
\* and, when the expression compiles, returns the object; a call that gives
\* input sources and the expression, second positional or string=, selects
\* compile-and-apply.
C8_ModeByShape ==
    pc # "call" =>
        /\ (\/ Len(args) = 1 /\ args[1].type = "str" /\ kwargs = <<>>
            \/ args = <<>> /\ Len(kwargs) = 1 /\ HasKey(kwargs, "string"))
           => /\ ~filter_mode
              /\ Compiled => outcome.kind = "return"
                               /\ outcome.value.type = "ExprStr"
        /\ (/\ Len(args) >= 1
            /\ args[1].type = "clips"
            /\ \/ Len(args) >= 2 /\ args[2].type = "str"
               \/ HasKey(kwargs, "string"))
           => filter_mode

\* C9: when an expression compiles, every boolean operator with two operands
\* in it renders as the tokens of its first operand, then of its second, then
\* the mnemonic.
C9_BooleanOrder ==
    Compiled => Output = Join(Postfix("boolean", tree))

====
